---- MODULE Spec2Model ----
(***************************************************************************)
(* A model of the deepwork package: prioritize_tasks (prioritize.py),      *)
(* plan_pomodoro (pomodoro.py) and get_affirmation (affirmation.py).       *)
(*                                                                         *)
(* Numbers: Python floats are modelled in fixed point.  Weights are in     *)
(* thousandths (0.5 is 500), a weighted priority_score is in hundredths    *)
(* (4.3 is 430), affirmation weights are in quarters (0.75 is 3) and       *)
(* mood_alignment is in hundredths (0.8 is 80).                            *)
(* A dict is a function whose DOMAIN is its set of keys.  A date string    *)
(* "YYYY-MM-DD" is the sequence <<Y, M, D>> of its dash-separated fields;  *)
(* the empty string is <<>>.                                               *)
(***************************************************************************)
EXTENDS Integers, Sequences, FiniteSets, TLC

VARIABLES
    \* prioritize_tasks: the arguments, date.today(), and what the call gave
    tasks, method, weights, today, rankResult,
    \* plan_pomodoro: the arguments and what the call gave
    pomoArgs, pomoResult,
    \* get_affirmation: the state of the random module's shared generator,
    \* the last call made (arguments and outcome), an earlier call kept
    \* for comparison, and the calls running in threads
    rng, last, mark, thr

rankVars == <<tasks, method, weights, today, rankResult>>
pomoVars == <<pomoArgs, pomoResult>>
affVars == <<rng, last, mark, thr>>
vars == <<tasks, method, weights, today, rankResult, pomoArgs, pomoResult,
          rng, last, mark, thr>>

(***************************************************************************)
(* Python values of an argument whose type the code checks: the type and,  *)
(* for an int, the number, for a str, the string                           *)
(***************************************************************************)
PyInt(n) == [ty |-> "int", i |-> n, s |-> ""]
PyStr(x) == [ty |-> "str", i |-> 0, s |-> x]
PyNone == [ty |-> "none", i |-> 0, s |-> ""]
PyFloat == [ty |-> "float", i |-> 0, s |-> ""]
PyBool == [ty |-> "bool", i |-> 1, s |-> ""]

\* what a call gives before it is made, and when it raises
Pending == [status |-> "pending", rows |-> <<>>]
Raised(kind) == [status |-> kind, rows |-> <<>>]

\* what get_affirmation gives when it raises, and before it is called
NoResult(status) ==
    [status |-> status, text |-> [template |-> 0, name |-> ""],
     category |-> "", mood_alignment |-> 0]

\* get_affirmation not called
NoCall ==
    [args |-> [name |-> PyNone, mood |-> PyNone, energy |-> PyNone,
               category |-> PyNone, seed |-> PyNone],
     result |-> NoResult("pending")]

NoThreads == <<>>

\* no earlier call kept; since counts the calls made after the one kept
NoMark == [args |-> NoCall.args, result |-> NoCall.result, since |-> 0]

AffIdle ==
    /\ rng = 0
    /\ last = NoCall
    /\ mark = NoMark
    /\ thr = NoThreads

(***************************************************************************)
(* Bounds of the model                                                     *)
(***************************************************************************)
MaxTasks == 3

(***************************************************************************)
(* datetime: strptime(s, "%Y-%m-%d").date() and date subtraction           *)
(***************************************************************************)
IsLeap(y) == (y % 4 = 0) /\ ((y % 100 # 0) \/ (y % 400 = 0))

DaysInMonth(y, m) ==
    IF m = 2 THEN (IF IsLeap(y) THEN 29 ELSE 28)
    ELSE IF m \in {4, 6, 9, 11} THEN 30 ELSE 31

RECURSIVE DaysBeforeMonth(_, _)
DaysBeforeMonth(y, m) ==
    IF m <= 1 THEN 0 ELSE DaysBeforeMonth(y, m - 1) + DaysInMonth(y, m - 1)

\* date.toordinal(): days since 0001-01-01, that day being 1
ToOrdinal(d) ==
    LET y == d[1] - 1
    IN  365 * y + (y \div 4) - (y \div 100) + (y \div 400)
        + DaysBeforeMonth(d[1], d[2]) + d[3]

\* strptime raises ValueError unless the string has three fields that name a
\* day of the calendar
Parses(s) ==
    /\ Len(s) = 3
    /\ s[1] \in 1..9999
    /\ s[2] \in 1..12
    /\ s[3] \in 1..DaysInMonth(s[1], s[2])

\* (deadline - today).days
DaysLeft(s, td) == ToOrdinal(s) - ToOrdinal(td)

(***************************************************************************)
(* prioritize_tasks                                                        *)
(***************************************************************************)
VALID_METHODS == {"weighted", "deadline"}

\* dict.get(key, default)
Get(d, key, default) == IF key \in DOMAIN d THEN d[key] ELSE default

\* round(x, 2) of x given in thousandths, in hundredths: to the nearest, a
\* tie going to the even hundredth
Round2(x) ==
    LET q == x \div 10
        r == x % 10
    IN  IF r < 5 THEN q
        ELSE IF r > 5 THEN q + 1
        ELSE IF q % 2 = 0 THEN q ELSE q + 1

\* "deadline" in task and task["deadline"]
HasDeadline(task) == "deadline" \in DOMAIN task /\ task["deadline"] # <<>>

DeadlineScore(task, td) ==
    IF HasDeadline(task) /\ Parses(task["deadline"])
    THEN LET days_left == DaysLeft(task["deadline"], td)
         IN  IF days_left <= 1 THEN 5
             ELSE IF days_left <= 3 THEN 4
             ELSE IF days_left <= 7 THEN 3
             ELSE IF days_left <= 14 THEN 2
             ELSE 1
    ELSE 3

\* a slip in the inversion of effort
EffortScoreOffByOne(task) == 5 - Get(task, "effort", 3)

EffortScore(task) == 6 - Get(task, "effort", 3)

\* the weights the weighted method uses: the defaults when weights is None,
\* and for each key the mapping lacks
WeightOf(w, key, default) ==
    IF w.kind = "none" THEN default ELSE Get(w.map, key, default)

WeightedScore(task, w, td) ==
    LET w_imp  == WeightOf(w, "importance", 500)
        w_eff  == WeightOf(w, "effort", 300)
        w_dead == WeightOf(w, "deadline", 200)
        score  == Get(task, "importance", 3) * w_imp
                  + EffortScore(task) * w_eff
                  + DeadlineScore(task, td) * w_dead
    IN  Round2(score)

\* the row the weighted method appends; pos is the place of the task in the
\* input list (the identity of the dict, which Python keeps and a record of
\* values does not)
WeightedRow(task, pos, w, td) ==
    [pos |-> pos] @@ [priority_score |-> WeightedScore(task, w, td)] @@ task

NoDays == [given |-> FALSE, days |-> 0]

DeadlineDaysLeft(task, td) ==
    IF HasDeadline(task) /\ Parses(task["deadline"])
    THEN [given |-> TRUE, days |-> DaysLeft(task["deadline"], td)]
    ELSE NoDays

Max(a, b) == IF a >= b THEN a ELSE b
Min(a, b) == IF a <= b THEN a ELSE b

\* the score without its floor of 0
DeadlineMethodScoreNoFloor(task, td) ==
    IF HasDeadline(task) /\ Parses(task["deadline"])
    THEN 100 - DaysLeft(task["deadline"], td)
    ELSE 0

DeadlineMethodScore(task, td) ==
    IF HasDeadline(task) /\ Parses(task["deadline"])
    THEN Max(0, 100 - DaysLeft(task["deadline"], td))
    ELSE 0

\* the row the deadline method appends; days_until_deadline is None
\* (NoDays) or the number of days
DeadlineRow(task, pos, td) ==
    [pos |-> pos]
    @@ [priority_score |-> DeadlineMethodScore(task, td),
        days_until_deadline |->
            IF "deadline" \in DOMAIN task THEN DeadlineDaysLeft(task, td)
            ELSE NoDays]
    @@ task

ScoredTasks(ts, m, w, td) ==
    [i \in 1..Len(ts) |->
        IF m = "weighted" THEN WeightedRow(ts[i], i, w, td)
        ELSE DeadlineRow(ts[i], i, td)]

\* an unstable sort: a row goes ahead of the rows of equal key
InsertDescUnstable(sorted, row) ==
    LET ahead == {i \in 1..Len(sorted) :
                    sorted[i]["priority_score"] > row["priority_score"]}
        k == Cardinality(ahead)
    IN  SubSeq(sorted, 1, k) \o <<row>> \o SubSeq(sorted, k + 1, Len(sorted))

\* list.sort(key=priority_score, reverse=True): a stable sort, rows of equal
\* key keeping their order.  A row goes behind every row whose key is not
\* smaller than its own.
InsertDesc(sorted, row) ==
    LET ahead == {i \in 1..Len(sorted) :
                    sorted[i]["priority_score"] >= row["priority_score"]}
        k == Cardinality(ahead)
    IN  SubSeq(sorted, 1, k) \o <<row>> \o SubSeq(sorted, k + 1, Len(sorted))

RECURSIVE SortDesc(_)
SortDesc(rows) ==
    IF rows = <<>> THEN <<>>
    ELSE InsertDesc(SortDesc(SubSeq(rows, 1, Len(rows) - 1)), rows[Len(rows)])

\* for i, task in enumerate(scored_tasks): task["rank"] = i + 1
AssignRanks(rows) == [i \in 1..Len(rows) |-> [rank |-> i] @@ rows[i]]

prioritize_tasks(ts, m, w, td) ==
    IF ts.kind # "list" THEN Raised("TypeError")
    ELSE IF Len(ts.items) = 0 THEN Raised("ValueError")
    ELSE IF \E i \in 1..Len(ts.items) : "name" \notin DOMAIN ts.items[i]
         THEN Raised("ValueError")
    ELSE IF m \notin VALID_METHODS THEN Raised("ValueError")
    ELSE IF w.kind \notin {"none", "dict"} THEN Raised("TypeError")
    ELSE [status |-> "ok",
          rows |-> AssignRanks(SortDesc(ScoredTasks(ts.items, m, w, td)))]

(***************************************************************************)
(* What the call does to its arguments.  The dicts of the input list are   *)
(* objects 1..n, in input order.  The code calls no method of `tasks` and  *)
(* assigns no item of it; what it writes are the dicts of scored_tasks,    *)
(* made by {**task, ...} and written again by task["rank"] = i + 1.        *)
(***************************************************************************)
\* scored_tasks holding the input dicts themselves: the row made from the
\* task at pos is that task
RowObjectAliased(n, pos) == pos

\* {**task, ...} makes a new dict: the row made from the task at pos is an
\* object of its own, beyond the n input dicts
RowObject(n, pos) == n + pos

\* the dict a returned row is, without the place kept for its identity
RowDict(row) == [k \in (DOMAIN row) \ {"pos"} |-> row[k]]

\* the input list after the call: each object holds what was last written
\* to it, the rows' fields and ranks to the objects the rows are
TasksAfter(ts, result) ==
    IF result.status # "ok" THEN ts
    ELSE LET n == Len(ts.items)
             written(x) == {k \in 1..Len(result.rows) :
                              RowObject(n, result.rows[k]["pos"]) = x}
         IN  [kind |-> ts.kind,
              items |-> [x \in 1..n |->
                  IF written(x) = {} THEN ts.items[x]
                  ELSE RowDict(result.rows[CHOOSE k \in written(x) : TRUE])]]

\* if weights is None: weights = {...} binds the local name to a new dict,
\* and weights.get(...) reads; the dict passed in is never written
WeightsAfter(w) == w

RankIdle ==
    /\ tasks = [kind |-> "list", items |-> <<>>]
    /\ method = "weighted"
    /\ weights = [kind |-> "none", map |-> <<>>]
    /\ today = <<2025, 2, 27>>
    /\ rankResult = Pending

(***************************************************************************)
(* plan_pomodoro.  pomodoro.py holds the signature and the docstring; the  *)
(* body is modelled from the specification of the schedule builder.        *)
(***************************************************************************)
MaxTotal == 125

VALID_TECHNIQUES == {"pomodoro", "52-17", "90-20", "custom"}

\* the presets: work and short break
PresetWork(technique) ==
    CASE technique = "pomodoro" -> 25
      [] technique = "52-17" -> 52
      [] technique = "90-20" -> 90

PresetShortBreak(technique) ==
    CASE technique = "pomodoro" -> 5
      [] technique = "52-17" -> 17
      [] technique = "90-20" -> 20

\* a numeric parameter that is given must be an int (a bool is not one)
\* and positive
BadType(v) == v.ty \notin {"int", "none"}
BadValue(v) == v.ty = "int" /\ v.i <= 0

PomodoroError(a) ==
    IF a.total_minutes.ty # "int" THEN "TypeError"
    ELSE IF a.total_minutes.i <= 0 THEN "ValueError"
    ELSE IF a.technique \notin VALID_TECHNIQUES THEN "ValueError"
    ELSE IF a.technique = "custom"
            /\ (a.work_length.ty = "none" \/ a.short_break.ty = "none")
         THEN "ValueError"
    ELSE IF BadType(a.work_length) \/ BadType(a.short_break)
            \/ BadType(a.long_break) \/ a.long_break_interval.ty # "int"
         THEN "TypeError"
    ELSE IF BadValue(a.work_length) \/ BadValue(a.short_break)
            \/ BadValue(a.long_break) \/ a.long_break_interval.i < 1
         THEN "ValueError"
    ELSE "none"

\* the nominal lengths of a valid call
WorkLength(a) ==
    IF a.technique = "custom" THEN a.work_length.i ELSE PresetWork(a.technique)

ShortBreak(a) ==
    IF a.technique = "custom" THEN a.short_break.i
    ELSE PresetShortBreak(a.technique)

\* long_break defaults to short_break
LongBreak(a) ==
    IF a.long_break.ty = "none" THEN ShortBreak(a) ELSE a.long_break.i

\* a session that runs its whole nominal length, whatever is left
SessionDurationUntruncated(nominal, total, clock) == nominal

\* the nominal duration truncated to what is left of the budget
SessionDuration(nominal, total, clock) == Min(nominal, total - clock)

\* a long break after every work session but the interval-th
IsLongBreakInverted(workCount, interval) == workCount % interval # 0

\* the break after the workCount-th work session is long when workCount is
\* a positive multiple of the interval
IsLongBreak(workCount, interval) == workCount > 0 /\ workCount % interval = 0

\* an end minute that counts the last minute of the session itself
MakeSessionInclusiveEnd(n, type, duration, clock) ==
    [session |-> n, type |-> type, duration_minutes |-> duration,
     start_minute |-> clock, end_minute |-> clock + duration - 1]

MakeSession(n, type, duration, clock) ==
    [session |-> n, type |-> type, duration_minutes |-> duration,
     start_minute |-> clock, end_minute |-> clock + duration]

\* the generation loop: work and break in turn from clock 0, every session
\* truncated to the budget, until the clock reaches total_minutes
RECURSIVE Generate(_, _, _, _, _)
Generate(a, sessions, clock, workCount, workNext) ==
    LET total == a.total_minutes.i
        long == IsLongBreak(workCount, a.long_break_interval.i)
        nominal == IF workNext THEN WorkLength(a)
                   ELSE IF long THEN LongBreak(a) ELSE ShortBreak(a)
        type == IF workNext THEN "work"
                ELSE IF long THEN "long_break" ELSE "short_break"
        duration == SessionDuration(nominal, total, clock)
    IN  IF clock >= total \/ duration <= 0 THEN sessions
        ELSE Generate(a,
                      Append(sessions,
                             MakeSession(Len(sessions) + 1, type, duration, clock)),
                      clock + duration,
                      IF workNext THEN workCount + 1 ELSE workCount,
                      ~workNext)

plan_pomodoro(a) ==
    IF PomodoroError(a) # "none" THEN Raised(PomodoroError(a))
    ELSE [status |-> "ok", rows |-> Generate(a, <<>>, 0, 0, TRUE)]

(***************************************************************************)
(* The calls of plan_pomodoro that are checked.  A preset is called        *)
(* without work_length and short_break.                                    *)
(***************************************************************************)
TotalArgs == {PyInt(n) : n \in 0..MaxTotal} \cup {PyFloat}
LongBreakArgs == {PyNone, PyInt(3), PyInt(15), PyInt(0), PyFloat}
IntervalArgs == {PyInt(1), PyInt(2), PyInt(4), PyInt(0), PyBool}

PomoArgsSet ==
    [total_minutes : TotalArgs,
     technique : {"pomodoro", "52-17", "90-20", "bogus"},
     work_length : {PyNone},
     short_break : {PyNone},
     long_break : LongBreakArgs,
     long_break_interval : IntervalArgs]
    \cup
    [total_minutes : TotalArgs,
     technique : {"custom"},
     work_length : {PyNone, PyInt(0), PyInt(2), PyInt(20)},
     short_break : {PyNone, PyInt(1), PyInt(5), PyFloat},
     long_break : LongBreakArgs,
     long_break_interval : IntervalArgs]

PomoIdle ==
    /\ pomoArgs = [total_minutes |-> PyInt(0), technique |-> "pomodoro",
                   work_length |-> PyNone, short_break |-> PyNone,
                   long_break |-> PyNone, long_break_interval |-> PyInt(4)]
    /\ pomoResult = Pending

PomoInit ==
    /\ pomoArgs \in PomoArgsSet
    /\ pomoResult = Pending
    /\ RankIdle
    /\ AffIdle

PlanPomodoro ==
    /\ pomoResult = Pending
    /\ pomoResult' = plan_pomodoro(pomoArgs)
    /\ UNCHANGED pomoArgs
    /\ UNCHANGED <<rankVars, affVars>>

PomoNext == PlanPomodoro

SpecPomo == PomoInit /\ [][PomoNext]_vars

(***************************************************************************)
(* get_affirmation                                                         *)
(***************************************************************************)
VALID_MOODS ==
    {"happy", "stressed", "anxious", "tired", "frustrated", "motivated", "neutral"}

VALID_CATEGORIES ==
    {"motivation", "confidence", "persistence", "self-care", "growth"}

\* the catalog, in its order; a record's text is known by its place
Aff(c, e) == [category |-> c, energy |-> e]

AFFIRMATIONS ==
    << Aff("motivation", "low"), Aff("motivation", "low"), Aff("motivation", "low"),
       Aff("motivation", "medium"), Aff("motivation", "medium"),
       Aff("motivation", "medium"),
       Aff("motivation", "high"), Aff("motivation", "high"),
       Aff("confidence", "low"), Aff("confidence", "medium"),
       Aff("confidence", "medium"), Aff("confidence", "high"),
       Aff("persistence", "low"), Aff("persistence", "medium"),
       Aff("persistence", "medium"), Aff("persistence", "high"),
       Aff("self-care", "low"), Aff("self-care", "low"), Aff("self-care", "medium"),
       Aff("growth", "low"), Aff("growth", "medium"), Aff("growth", "medium"),
       Aff("growth", "high") >>

MOOD_CATEGORY_MAP ==
    [m \in VALID_MOODS |->
        CASE m = "happy" -> <<"motivation", "growth">>
          [] m = "stressed" -> <<"self-care", "persistence">>
          [] m = "anxious" -> <<"confidence", "self-care">>
          [] m = "tired" -> <<"self-care", "motivation">>
          [] m = "frustrated" -> <<"persistence", "confidence">>
          [] m = "motivated" -> <<"motivation", "growth">>
          [] m = "neutral" -> <<"motivation", "confidence">>]

\* str.lower() on the strings the calls use
Lower(x) ==
    CASE x = "Stressed" -> "stressed"
      [] x = "Growth" -> "growth"
      [] x = "SELF-CARE" -> "self-care"
      [] OTHER -> x

\* name.strip().title() if name.strip() else "Developer", on the names the
\* calls use
DisplayName(x) ==
    CASE x = "alice" -> "Alice"
      [] x = " bob " -> "Bob"
      [] x = "  " -> "Developer"
      [] x = "" -> "Developer"
      [] OTHER -> x

(***************************************************************************)
(* The random module's shared generator.  Its state is a number below      *)
(* RngMod; random.seed(n) sets the state from n alone, random.random()     *)
(* advances it and gives new state / RngMod, a fraction in [0, 1).         *)
(***************************************************************************)
RngMod == 16

RngStates == 0..(RngMod - 1)

\* a seed that is dropped: the generator keeps the state it had
SeedStateKept(state, seed) == state

\* random.seed(seed)
SeedState(state, seed) == (7 * seed + 1) % RngMod

\* the state after one random.random(), which is also the numerator drawn
RngStep(state) == (5 * state + 3) % RngMod

\* the intensity bucket with its lower boundary one off
EnergyCatOffByOne(energy) ==
    IF energy < 3 THEN "low" ELSE IF energy <= 7 THEN "medium" ELSE "high"

EnergyCat(energy) ==
    IF energy <= 3 THEN "low" ELSE IF energy <= 7 THEN "medium" ELSE "high"

\* if category: [category] else MOOD_CATEGORY_MAP.get(mood.lower(), ["motivation"])
PreferredCategories(mood, category) ==
    IF category.ty = "str" /\ category.s # "" THEN <<category.s>>
    ELSE IF Lower(mood.s) \in DOMAIN MOOD_CATEGORY_MAP
         THEN MOOD_CATEGORY_MAP[Lower(mood.s)]
         ELSE <<"motivation">>

InList(x, list) == \E i \in 1..Len(list) : list[i] = x

\* list.index(x): the first place of x, counted from 0
RECURSIVE IndexFrom(_, _, _)
IndexFrom(x, list, i) ==
    IF list[i] = x THEN i - 1 ELSE IndexFrom(x, list, i + 1)

IndexOf(x, list) == IndexFrom(x, list, 1)

\* the one element of a set of one
Only(S) == CHOOSE x \in S : TRUE

energy_order == <<"low", "medium", "high">>

Abs(n) == IF n < 0 THEN -n ELSE n

\* the weight of a catalog record, in quarters: the category factor 3.0,
\* 2.0 or 0.5 (in halves) times the energy factor 2.0, 1.5 or 1.0 (in halves)
Weight(affirmation, preferred, energy_cat) ==
    LET cat == IF InList(affirmation.category, preferred)
               THEN (IF IndexOf(affirmation.category, preferred) = 0 THEN 6 ELSE 4)
               ELSE 1
        en  == IF affirmation.energy = energy_cat THEN 4
               ELSE IF Abs(IndexOf(affirmation.energy, energy_order)
                           - IndexOf(energy_cat, energy_order)) = 1 THEN 3
               ELSE 2
    IN  cat * en

\* for affirmation in AFFIRMATIONS: ... candidates.append((affirmation, weight)),
\* over the first n records of the catalog; a record is named by its place
RECURSIVE WeightedCandidates(_, _, _)
WeightedCandidates(n, preferred, energy_cat) ==
    IF n = 0 THEN <<>>
    ELSE Append(WeightedCandidates(n - 1, preferred, energy_cat),
                [idx |-> n,
                 weight |-> Weight(AFFIRMATIONS[n], preferred, energy_cat)])

\* [(a, 1.0) for a in AFFIRMATIONS if keep(a)], over the first n records
RECURSIVE PlainCandidates(_, _)
PlainCandidates(n, energy_cats) ==
    IF n = 0 THEN <<>>
    ELSE IF AFFIRMATIONS[n].energy \in energy_cats
         THEN Append(PlainCandidates(n - 1, energy_cats), [idx |-> n, weight |-> 4])
         ELSE PlainCandidates(n - 1, energy_cats)

\* the candidates: every catalog record with its weight, or, were there
\* none, the records of the energy bucket, or else all, with weight 1.0
Candidates(preferred, energy_cat) ==
    LET weighted == WeightedCandidates(Len(AFFIRMATIONS), preferred, energy_cat)
        sameEnergy == PlainCandidates(Len(AFFIRMATIONS), {energy_cat})
    IN  IF weighted # <<>> THEN weighted
        ELSE IF sameEnergy # <<>> THEN sameEnergy
        ELSE PlainCandidates(Len(AFFIRMATIONS), {"low", "medium", "high"})

RECURSIVE SumWeights(_, _)
SumWeights(candidates, n) ==
    IF n = 0 THEN 0 ELSE SumWeights(candidates, n - 1) + candidates[n].weight

\* a walk that selects a candidate only once r < cumulative
RECURSIVE WalkStrict(_, _, _, _)
WalkStrict(candidates, k, cumulative, threshold) ==
    IF k > Len(candidates) THEN candidates[Len(candidates)].idx
    ELSE LET next == cumulative + candidates[k].weight
         IN  IF threshold < next * RngMod THEN candidates[k].idx
             ELSE WalkStrict(candidates, k + 1, next, threshold)

\* the walk over the candidates: cumulative += weight, and the candidate is
\* selected once r <= cumulative, r being threshold / RngMod; the last
\* candidate is selected when the walk ends without one
RECURSIVE Walk(_, _, _, _)
Walk(candidates, k, cumulative, threshold) ==
    IF k > Len(candidates) THEN candidates[Len(candidates)].idx
    ELSE LET next == cumulative + candidates[k].weight
         IN  IF threshold <= next * RngMod THEN candidates[k].idx
             ELSE Walk(candidates, k + 1, next, threshold)

\* r = random.uniform(0, total) is total * u / RngMod
Selected(candidates, u) ==
    Walk(candidates, 1, 0, SumWeights(candidates, Len(candidates)) * u)

\* round(min(score, 1.0), 2), in hundredths
MoodAlignment(selected, preferred, energy_cat) ==
    LET base == 50
        withCategory == IF InList(selected.category, preferred)
                        THEN base + 30 ELSE base
        score == IF selected.energy = energy_cat
                 THEN withCategory + 20 ELSE withCategory
    IN  Min(score, 100)

\* the exception the validation raises, if any
AffirmationError(a) ==
    IF a.name.ty # "str" THEN "TypeError"
    ELSE IF a.mood.ty # "str" THEN "TypeError"
    ELSE IF Lower(a.mood.s) \notin VALID_MOODS THEN "ValueError"
    ELSE IF a.energy.ty # "int" THEN "TypeError"
    ELSE IF a.energy.i < 1 \/ a.energy.i > 10 THEN "ValueError"
    ELSE IF a.category.ty \notin {"none", "str"} THEN "TypeError"
    ELSE IF a.category.ty = "str" /\ Lower(a.category.s) \notin VALID_CATEGORIES
         THEN "ValueError"
    ELSE IF a.seed.ty \notin {"none", "int", "bool"} THEN "TypeError"
    ELSE "none"

\* the main logic after the seeding, for the number u drawn: the selection
\* is made once and the returned dict is built from it
Outcome(idx, display_name, energy_cat, preferred) ==
    [status |-> "ok",
     text |-> [template |-> idx, name |-> display_name],
     category |-> AFFIRMATIONS[idx].category,
     mood_alignment |-> MoodAlignment(AFFIRMATIONS[idx], preferred, energy_cat)]

MainLogic(a, u) ==
    LET display_name == DisplayName(a.name.s)
        energy_cat == EnergyCat(a.energy.i)
        preferred == PreferredCategories(a.mood, a.category)
    IN  Only({Outcome(idx, display_name, energy_cat, preferred) :
                idx \in {Selected(Candidates(preferred, energy_cat), u)}})

\* if seed is not None: random.seed(seed)
AfterSeeding(state, seed) ==
    IF seed.ty = "none" THEN state ELSE SeedState(state, seed.i)

\* a call that seeds the generator before it validates its arguments
get_affirmationSeedsFirst(a, state) ==
    IF AffirmationError(a) # "none"
    THEN [result |-> NoResult(AffirmationError(a)),
          rng |-> AfterSeeding(state, a.seed)]
    ELSE LET drawn == RngStep(AfterSeeding(state, a.seed))
         IN  [result |-> MainLogic(a, drawn), rng |-> drawn]

\* a whole call from generator state `state`: the outcome and the state of
\* the generator after it
get_affirmation(a, state) ==
    IF AffirmationError(a) # "none"
    THEN [result |-> NoResult(AffirmationError(a)), rng |-> state]
    ELSE LET drawn == RngStep(AfterSeeding(state, a.seed))
         IN  [result |-> MainLogic(a, drawn), rng |-> drawn]

(***************************************************************************)
(* Calls of get_affirmation one after another in one process               *)
(***************************************************************************)
AffArgs(names, moods, energies, categories, seeds) ==
    [name : names, mood : moods, energy : energies,
     category : categories, seed : seeds]

Call(name, mood, energy, category, seed) ==
    [name |-> name, mood |-> mood, energy |-> energy,
     category |-> category, seed |-> seed]

\* calls that pass the validation
ValidCalls ==
    AffArgs({PyStr("alice")},
            {PyStr("happy"), PyStr("Stressed")},
            {PyInt(3), PyInt(4), PyInt(7), PyInt(8)},
            {PyNone, PyStr("growth"), PyStr("Growth")},
            {PyNone, PyInt(1), PyInt(2)})
    \cup AffArgs({PyStr("  ")}, {PyStr("happy")}, {PyInt(1), PyInt(10)},
                 {PyNone}, {PyNone, PyInt(1)})

\* calls that the validation rejects, each with a seed
InvalidCalls ==
    { Call(PyInt(123), PyStr("happy"), PyInt(5), PyNone, PyInt(1)),
      Call(PyStr("alice"), PyInt(5), PyInt(5), PyNone, PyInt(1)),
      Call(PyStr("alice"), PyStr("invalid"), PyInt(5), PyNone, PyInt(1)),
      Call(PyStr("alice"), PyStr("happy"), PyBool, PyNone, PyInt(1)),
      Call(PyStr("alice"), PyStr("happy"), PyInt(0), PyNone, PyInt(1)),
      Call(PyStr("alice"), PyStr("happy"), PyInt(11), PyNone, PyInt(1)),
      Call(PyStr("alice"), PyStr("happy"), PyInt(5), PyInt(7), PyInt(1)),
      Call(PyStr("alice"), PyStr("happy"), PyInt(5), PyStr("invalid"), PyInt(1)),
      Call(PyStr("alice"), PyStr("happy"), PyInt(5), PyNone, PyFloat),
      Call(PyStr("alice"), PyStr("invalid"), PyInt(5), PyNone, PyFloat) }

Calls == ValidCalls \cup InvalidCalls

\* the generator starts from the entropy of the system
AffInit ==
    /\ rng \in RngStates
    /\ last = NoCall
    /\ mark = NoMark
    /\ thr = NoThreads
    /\ RankIdle
    /\ PomoIdle

GetAffirmation(a) ==
    \E out \in {get_affirmation(a, rng)} :
        /\ rng' = out.rng
        /\ last' = [args |-> a, result |-> out.result]
        /\ UNCHANGED <<thr, rankVars, pomoVars>>

AffNext == \E a \in Calls : GetAffirmation(a) /\ UNCHANGED mark

SpecAff == AffInit /\ [][AffNext]_vars

(***************************************************************************)
(* The same, with one earlier call kept beside the last one, to compare    *)
(* two calls of a run whatever was called before and between them          *)
(***************************************************************************)
MaxSince == 2

RepeatCalls ==
    AffArgs({PyStr("alice")},
            {PyStr("happy")},
            {PyInt(3), PyInt(8)},
            {PyNone, PyStr("growth")},
            {PyNone, PyInt(1), PyInt(2)})
    \cup { Call(PyStr("alice"), PyStr("happy"), PyInt(0), PyNone, PyInt(1)) }

\* the call just made, a seeded one that returned, is kept
KeepCall ==
    /\ last'.args.seed.ty = "int"
    /\ last'.result.status = "ok"
    /\ mark' = [args |-> last'.args, result |-> last'.result, since |-> 0]

\* the call kept stays, one more call behind
AgeMark ==
    mark' = [mark EXCEPT !.since = IF @ < MaxSince THEN @ + 1 ELSE @]

RepeatNext ==
    \E a \in RepeatCalls : GetAffirmation(a) /\ (KeepCall \/ AgeMark)

SpecRepeat == AffInit /\ [][RepeatNext]_vars

(***************************************************************************)
(* Calls of get_affirmation in threads of one process.  random.seed and    *)
(* random.uniform are each one step of the shared generator; a thread may  *)
(* be switched out between the two.                                        *)
(***************************************************************************)
NThreads == 2

Threads == 1..NThreads

ConcCalls ==
    AffArgs({PyStr("alice")}, {PyStr("happy")}, {PyInt(3), PyInt(8)},
            {PyNone}, {PyNone, PyInt(1), PyInt(2)})
    \cup { Call(PyStr("alice"), PyStr("happy"), PyInt(0), PyNone, PyInt(1)) }

ConcInit ==
    /\ rng \in RngStates
    /\ thr \in [Threads -> {[pc |-> "start", args |-> a, result |-> NoResult("pending")] :
                              a \in ConcCalls}]
    /\ last = NoCall
    /\ mark = NoMark
    /\ RankIdle
    /\ PomoIdle

\* the validation and, if it passes, the seeding
Seed(t) ==
    /\ thr[t].pc = "start"
    /\ IF AffirmationError(thr[t].args) # "none"
       THEN /\ thr' = [thr EXCEPT ![t].pc = "done",
                                  ![t].result = NoResult(AffirmationError(thr[t].args))]
            /\ UNCHANGED rng
       ELSE /\ rng' = AfterSeeding(rng, thr[t].args.seed)
            /\ thr' = [thr EXCEPT ![t].pc = "seeded"]
    /\ UNCHANGED <<last, mark, rankVars, pomoVars>>

\* the draw and the rest of the main logic
Draw(t) ==
    /\ thr[t].pc = "seeded"
    /\ \E drawn \in {RngStep(rng)} :
          /\ rng' = drawn
          /\ thr' = [thr EXCEPT ![t].pc = "done",
                                ![t].result = MainLogic(thr[t].args, drawn)]
    /\ UNCHANGED <<last, mark, rankVars, pomoVars>>

ConcNext == \E t \in Threads : Seed(t) \/ Draw(t)

SpecConc == ConcInit /\ [][ConcNext]_vars

(***************************************************************************)
(* One call of get_affirmation for every number random.uniform(0, total)   *)
(* can give.  The weights are whole quarters, so r is taken in quarters    *)
(* from 0 to total: a number between two of them is <= the same cumulative *)
(* weights as the next quarter above it and selects the same record.       *)
(***************************************************************************)
DrawCalls ==
    AffArgs({PyStr("alice")},
            {PyStr("happy"), PyStr("Stressed"), PyStr("tired")},
            {PyInt(2), PyInt(5), PyInt(9)},
            {PyNone, PyStr("growth")},
            {PyNone})

DrawInit ==
    /\ rng = 0
    /\ last = NoCall
    /\ mark = NoMark
    /\ thr = NoThreads
    /\ RankIdle
    /\ PomoIdle

\* the main logic of a valid call when random.uniform(0, total) gives r:
\* the candidates, the record selected by the walk and the returned dict
DrawAt(a, r) ==
    /\ last = NoCall
    /\ AffirmationError(a) = "none"
    /\ \E candidates \in {Candidates(PreferredCategories(a.mood, a.category),
                                     EnergyCat(a.energy.i))} :
          /\ r \in 0..SumWeights(candidates, Len(candidates))
          /\ \E idx \in {Walk(candidates, 1, 0, r * RngMod)} :
                last' = [args |-> a,
                         result |-> Outcome(idx, DisplayName(a.name.s),
                                            EnergyCat(a.energy.i),
                                            PreferredCategories(a.mood, a.category)),
                         candidates |-> candidates,
                         r |-> r,
                         selected |-> idx]
    /\ UNCHANGED <<rng, mark, thr, rankVars, pomoVars>>

\* no weight is above 3.0 * 2.0, 24 quarters
DrawRange == 0..(24 * Len(AFFIRMATIONS))

DrawNext == \E a \in DrawCalls, r \in DrawRange : DrawAt(a, r)

SpecDraw == DrawInit /\ [][DrawNext]_vars

(***************************************************************************)
(* The calls of prioritize_tasks that are checked                          *)
(***************************************************************************)
TaskPool ==
    { [name |-> "fix bug", importance |-> 5, effort |-> 2],
      [name |-> "write docs"],
      [name |-> "review", importance |-> 3, effort |-> 3, deadline |-> <<>>],
      [name |-> "deploy", importance |-> 1, deadline |-> <<2025, 3, 1>>],
      [name |-> "plan", deadline |-> <<2025, 2, 30>>],
      [name |-> "report", effort |-> 5, deadline |-> <<2025, 6, 30>>],
      [name |-> "invoice", deadline |-> <<2025, 2, 20>>],
      [name |-> "slides", deadline |-> <<2025, 3, 5>>],
      [name |-> "email", deadline |-> <<2025, 3, 10>>],
      [importance |-> 4] }

RECURSIVE ListsUpTo(_, _)
ListsUpTo(S, n) ==
    IF n = 0 THEN {<<>>}
    ELSE LET shorter == ListsUpTo(S, n - 1)
         IN  shorter \cup {Append(l, x) : l \in shorter, x \in S}

TasksArgs ==
    {[kind |-> "list", items |-> l] : l \in ListsUpTo(TaskPool, MaxTasks)}
    \cup {[kind |-> "tuple", items |-> <<>>]}

MethodArgs == {"weighted", "deadline", "foo"}

WeightsArgs ==
    { [kind |-> "none", map |-> <<>>],
      [kind |-> "dict", map |-> [importance |-> 1000, effort |-> 0]],
      [kind |-> "dict", map |-> [deadline |-> 334]],
      [kind |-> "list", map |-> <<>>] }

Todays == {<<2025, 2, 27>>, <<2025, 3, 1>>}

RankInit ==
    /\ tasks \in TasksArgs
    /\ method \in MethodArgs
    /\ weights \in WeightsArgs
    /\ today \in Todays
    /\ rankResult = Pending
    /\ PomoIdle
    /\ AffIdle

PrioritizeTasks ==
    /\ rankResult = Pending
    /\ \E result \in {prioritize_tasks(tasks, method, weights, today)} :
          /\ rankResult' = result
          /\ tasks' = TasksAfter(tasks, result)
    /\ weights' = WeightsAfter(weights)
    /\ UNCHANGED <<method, today>>
    /\ UNCHANGED <<pomoVars, affVars>>

RankNext == PrioritizeTasks

SpecRank == RankInit /\ [][RankNext]_vars

(***************************************************************************)
(* Properties of prioritize_tasks                                          *)
(***************************************************************************)
ValidRankCall ==
    /\ tasks.kind = "list"
    /\ Len(tasks.items) > 0
    /\ \A i \in 1..Len(tasks.items) : "name" \in DOMAIN tasks.items[i]
    /\ method \in {"weighted", "deadline"}
    /\ weights.kind \in {"none", "dict"}

RankReturned == rankResult # Pending

\* the input task a returned row was made from
SourceTask(row) == tasks.items[row["pos"]]

\* C1: a valid call on N tasks returns N rows, one per input task, whose
\* ranks are 1..N in order, whose priority_score never increases down the
\* rows, and where rows of equal priority_score keep their input order.
C1_RankedStableDescending ==
    (RankReturned /\ ValidRankCall) =>
        LET rows == rankResult.rows
            N == Len(tasks.items)
        IN  /\ rankResult.status = "ok"
            /\ Len(rows) = N
            /\ \A i \in 1..N : rows[i]["rank"] = i
            /\ {rows[i]["pos"] : i \in 1..N} = 1..N
            /\ \A i \in 1..N : \A k \in DOMAIN SourceTask(rows[i]) :
                    rows[i][k] = SourceTask(rows[i])[k]
            /\ \A i, j \in 1..N :
                    i < j => rows[i]["priority_score"] >= rows[j]["priority_score"]
            /\ \A i, j \in 1..N :
                    (i < j /\ rows[i]["priority_score"] = rows[j]["priority_score"])
                        => rows[i]["pos"] < rows[j]["pos"]

\* a call returned three rows, two of them tied, one of them moved
C1_Witness ==
    /\ rankResult.status = "ok"
    /\ Len(rankResult.rows) = 3
    /\ \E i, j \in 1..3 :
          /\ i < j
          /\ rankResult.rows[i]["priority_score"] = rankResult.rows[j]["priority_score"]
          /\ SourceTask(rankResult.rows[i]) # SourceTask(rankResult.rows[j])
    /\ \E i \in 1..3 : rankResult.rows[i]["pos"] # i

\* what the weighted method is to give for a task, in hundredths
C6_DeadlineScore(task) ==
    IF "deadline" \notin DOMAIN task THEN 3
    ELSE IF task["deadline"] = <<>> \/ ~Parses(task["deadline"]) THEN 3
    ELSE LET d == DaysLeft(task["deadline"], today)
         IN  CASE d <= 1 -> 5
               [] d \in 2..3 -> 4
               [] d \in 4..7 -> 3
               [] d \in 8..14 -> 2
               [] OTHER -> 1

C6_Weight(key, default) ==
    IF weights.kind = "dict" /\ key \in DOMAIN weights.map
    THEN weights.map[key] ELSE default

C6_Expected(task) ==
    LET imp == IF "importance" \in DOMAIN task THEN task["importance"] ELSE 3
        eff == IF "effort" \in DOMAIN task THEN task["effort"] ELSE 3
    IN  Round2(imp * C6_Weight("importance", 500)
               + (6 - eff) * C6_Weight("effort", 300)
               + C6_DeadlineScore(task) * C6_Weight("deadline", 200))

\* C6: with method "weighted" every row's priority_score is
\* importance*w_importance + (6 - effort)*w_effort + deadlineScore*w_deadline
\* rounded to 2 decimals, with the defaults 3, 3, score 3, 0.5, 0.3 and 0.2;
\* importance 5, effort 2, no deadline and the default weights give 4.3, and
\* a deadline 2 days away scores 4.
C6_WeightedScore ==
    (RankReturned /\ ValidRankCall /\ method = "weighted") =>
        /\ rankResult.status = "ok"
        /\ \A i \in 1..Len(rankResult.rows) :
            LET row == rankResult.rows[i]
                task == SourceTask(row)
            IN  /\ row["priority_score"] = C6_Expected(task)
                /\ (weights.kind = "none" /\ task["name"] = "fix bug")
                        => row["priority_score"] = 430
                /\ (weights.kind = "none" /\ task["name"] = "deploy"
                        /\ today = <<2025, 2, 27>>)
                        => row["priority_score"] = 50 + 90 + 80
                /\ "days_until_deadline" \notin DOMAIN row

\* a weighted call with a partial weights mapping scored a task that has a
\* deadline that parses and a task that has no importance
C6_Witness ==
    /\ rankResult.status = "ok"
    /\ method = "weighted"
    /\ weights.kind = "dict"
    /\ DOMAIN weights.map = {"deadline"}
    /\ \E i \in 1..Len(rankResult.rows) :
          LET task == SourceTask(rankResult.rows[i])
          IN  HasDeadline(task) /\ Parses(task["deadline"])
    /\ \E i \in 1..Len(rankResult.rows) :
          "importance" \notin DOMAIN SourceTask(rankResult.rows[i])
    /\ \E i \in 1..Len(rankResult.rows) :
          rankResult.rows[i]["priority_score"] % 10 # 0

\* C7: with method "deadline" a task whose deadline parses scores
\* max(0, 100 - daysLeft) and reports daysLeft (an overdue task scores above
\* 100, a task 100 or more days away scores 0); a task whose deadline is
\* absent, empty or unparseable scores 0 and reports no number of days, and
\* the call raises nothing.
C7_DeadlineScore ==
    (RankReturned /\ ValidRankCall /\ method = "deadline") =>
        /\ rankResult.status = "ok"
        /\ \A i \in 1..Len(rankResult.rows) :
            LET row == rankResult.rows[i]
                task == SourceTask(row)
                parsed == /\ "deadline" \in DOMAIN task
                          /\ task["deadline"] # <<>>
                          /\ Parses(task["deadline"])
                d == DaysLeft(task["deadline"], today)
            IN  /\ parsed =>
                    /\ row["priority_score"] = (IF d >= 100 THEN 0 ELSE 100 - d)
                    /\ row["days_until_deadline"] = [given |-> TRUE, days |-> d]
                    /\ d < 0 => row["priority_score"] > 100
                /\ ~parsed =>
                    /\ row["priority_score"] = 0
                    /\ ~row["days_until_deadline"].given
                /\ (task["name"] = "report" /\ today = <<2025, 2, 27>>)
                        => row["days_until_deadline"].days = 123
                /\ (task["name"] = "invoice" /\ today = <<2025, 3, 1>>)
                        => row["priority_score"] = 109

\* a deadline call scored an overdue task, a task 100 or more days away and
\* a task whose deadline does not parse
C7_Witness ==
    /\ rankResult.status = "ok"
    /\ method = "deadline"
    /\ \E i, j, k \in 1..Len(rankResult.rows) :
          /\ rankResult.rows[i]["priority_score"] > 100
          /\ rankResult.rows[j]["days_until_deadline"].given
          /\ rankResult.rows[j]["days_until_deadline"].days >= 100
          /\ rankResult.rows[j]["priority_score"] = 0
          /\ "deadline" \in DOMAIN SourceTask(rankResult.rows[k])
          /\ SourceTask(rankResult.rows[k])["deadline"] # <<>>
          /\ ~rankResult.rows[k]["days_until_deadline"].given

(***************************************************************************)
(* Properties of plan_pomodoro                                             *)
(***************************************************************************)
PomoReturned == pomoResult # Pending

ValidPomoCall ==
    /\ pomoArgs.total_minutes.ty = "int" /\ pomoArgs.total_minutes.i > 0
    /\ pomoArgs.technique \in {"pomodoro", "52-17", "90-20", "custom"}
    /\ pomoArgs.technique = "custom" =>
          /\ pomoArgs.work_length.ty = "int" /\ pomoArgs.work_length.i > 0
          /\ pomoArgs.short_break.ty = "int" /\ pomoArgs.short_break.i > 0
    /\ pomoArgs.long_break.ty = "none"
          \/ (pomoArgs.long_break.ty = "int" /\ pomoArgs.long_break.i > 0)
    /\ pomoArgs.long_break_interval.ty = "int"
    /\ pomoArgs.long_break_interval.i >= 1

RECURSIVE SumDurations(_)
SumDurations(rows) ==
    IF rows = <<>> THEN 0
    ELSE rows[1].duration_minutes + SumDurations(Tail(rows))

\* the lengths a call asks for, read off its arguments
NominalWork ==
    CASE pomoArgs.technique = "pomodoro" -> 25
      [] pomoArgs.technique = "52-17" -> 52
      [] pomoArgs.technique = "90-20" -> 90
      [] pomoArgs.technique = "custom" -> pomoArgs.work_length.i

NominalShort ==
    CASE pomoArgs.technique = "pomodoro" -> 5
      [] pomoArgs.technique = "52-17" -> 17
      [] pomoArgs.technique = "90-20" -> 20
      [] pomoArgs.technique = "custom" -> pomoArgs.short_break.i

NominalLong ==
    IF pomoArgs.long_break.ty = "int" THEN pomoArgs.long_break.i
    ELSE NominalShort

\* the nominal length of the session in row i of a schedule
NominalOf(rows, i) ==
    CASE rows[i].type = "work" -> NominalWork
      [] rows[i].type = "short_break" -> NominalShort
      [] rows[i].type = "long_break" -> NominalLong

\* C2: a valid call gives a non-empty schedule that starts at minute 0,
\* where every session ends at its start plus its duration and the next
\* one starts there, and whose durations add up to total_minutes, the end
\* of the last session.
C2_ContiguousAndComplete ==
    (PomoReturned /\ ValidPomoCall) =>
        LET rows == pomoResult.rows
            n == Len(rows)
        IN  /\ pomoResult.status = "ok"
            /\ n >= 1
            /\ rows[1].start_minute = 0
            /\ \A i \in 1..n :
                  rows[i].end_minute = rows[i].start_minute + rows[i].duration_minutes
            /\ \A i \in 1..(n - 1) : rows[i].end_minute = rows[i + 1].start_minute
            /\ SumDurations(rows) = pomoArgs.total_minutes.i
            /\ rows[n].end_minute = pomoArgs.total_minutes.i

\* a schedule of several sessions whose last one was truncated
C2_Witness ==
    /\ pomoResult.status = "ok"
    /\ Len(pomoResult.rows) >= 4
    /\ LET n == Len(pomoResult.rows)
       IN  pomoResult.rows[n].duration_minutes < NominalOf(pomoResult.rows, n)

\* C8: in every schedule the sessions are work, break, work, break ... from
\* a work session on (numbered 1, 2, ...), and the break after the k-th work
\* session is a long_break of nominal length long_break (short_break when
\* long_break is not given) exactly when k is a multiple of
\* long_break_interval, and otherwise a short_break of nominal length
\* short_break, whatever the technique.
C8_AlternationAndLongBreaks ==
    (PomoReturned /\ ValidPomoCall) =>
        LET rows == pomoResult.rows
            total == pomoArgs.total_minutes.i
        IN  \A i \in 1..Len(rows) :
              /\ rows[i].session = i
              /\ (i % 2 = 1) => rows[i].type = "work"
              /\ (i % 2 = 0) =>
                    LET k == i \div 2
                        isLong == k % pomoArgs.long_break_interval.i = 0
                        nominal == IF isLong THEN NominalLong ELSE NominalShort
                    IN  /\ rows[i].type =
                              (IF isLong THEN "long_break" ELSE "short_break")
                        /\ rows[i].duration_minutes = nominal
                              \/ (i = Len(rows)
                                  /\ rows[i].duration_minutes = total - rows[i].start_minute
                                  /\ rows[i].duration_minutes < nominal)

\* a preset schedule with a short break, then a long break of the given
\* length, then work again
C8_Witness ==
    /\ pomoResult.status = "ok"
    /\ pomoArgs.technique = "pomodoro"
    /\ pomoArgs.long_break_interval.i = 2
    /\ pomoArgs.long_break = PyInt(15)
    /\ Len(pomoResult.rows) >= 5
    /\ pomoResult.rows[2].type = "short_break"
    /\ pomoResult.rows[4].type = "long_break"
    /\ pomoResult.rows[4].duration_minutes = 15
    /\ pomoResult.rows[5].type = "work"

\* C9: in every schedule every duration is positive and is
\* min(nominal, total_minutes - start), so only the last session can be
\* shorter than its nominal length; nothing starts at or after
\* total_minutes; and when total_minutes is smaller than the work length
\* the schedule is the one work session from 0 to total_minutes.
C9_TruncationOnlyAtEnd ==
    (PomoReturned /\ ValidPomoCall) =>
        LET rows == pomoResult.rows
            n == Len(rows)
            total == pomoArgs.total_minutes.i
        IN  /\ \A i \in 1..n :
                  /\ rows[i].duration_minutes > 0
                  /\ rows[i].start_minute < total
                  /\ rows[i].end_minute <= total
                  /\ rows[i].duration_minutes =
                        (IF NominalOf(rows, i) <= total - rows[i].start_minute
                         THEN NominalOf(rows, i)
                         ELSE total - rows[i].start_minute)
                  /\ i < n => rows[i].duration_minutes = NominalOf(rows, i)
            /\ \A i \in 1..n : rows[i].end_minute = total => i = n
            /\ total < NominalWork =>
                  rows = << [session |-> 1, type |-> "work",
                             duration_minutes |-> total,
                             start_minute |-> 0, end_minute |-> total] >>

\* total_minutes 15 with the pomodoro preset: the one work session of 15
C9_Witness ==
    /\ pomoResult.status = "ok"
    /\ pomoArgs.technique = "pomodoro"
    /\ pomoArgs.total_minutes.i = 15
    /\ Len(pomoResult.rows) = 1
    /\ pomoResult.rows[1].duration_minutes = 15

(***************************************************************************)
(* Properties of get_affirmation                                           *)
(***************************************************************************)
Seeded(call) == call.args.seed.ty = "int" /\ call.result.status = "ok"

\* C3: two calls with the same integer seed and the same name, mood, energy
\* and category return the same text, category and mood_alignment, whatever
\* was called before and between them.
C3_SameSeedSameResult ==
    (Seeded(mark) /\ Seeded(last) /\ mark.args = last.args)
        => last.result = mark.result

\* a seeded call made again after another call came between
C3_Witness ==
    /\ Seeded(mark)
    /\ Seeded(last)
    /\ mark.args = last.args
    /\ mark.since = 2
    /\ last.result.text.name = "Alice"

\* C4: a call with a seed leaves the state of the shared generator as it
\* was before the call.
C4_SeedLeavesSharedGenerator ==
    [][(last' # last /\ Seeded(last')) => rng' = rng]_vars

\* what a seeded call returns when it runs alone, in a process of its own
AloneResult(a) == get_affirmation(a, 0).result

\* C5: under every interleaving of the seeding and the draw of concurrent
\* calls, a seeded call returns what it returns when run alone.
C5_SeededCallIsolated ==
    \A t \in DOMAIN thr :
        (thr[t].pc = "done" /\ Seeded(thr[t]))
            => thr[t].result = AloneResult(thr[t].args)

\* the tier of an energy level: 1-3 low, 4-7 medium, 8-10 high
C10_Tier(energy) ==
    CASE energy \in 1..3 -> "low"
      [] energy \in 4..7 -> "medium"
      [] energy \in 8..10 -> "high"

\* the preferred category list of a call
C10_Preferred(a) ==
    IF a.category.ty = "str" THEN <<a.category.s>>
    ELSE MOOD_CATEGORY_MAP[Lower(a.mood.s)]

ValidAffCall(a) ==
    /\ a.name.ty = "str"
    /\ a.mood.ty = "str" /\ Lower(a.mood.s) \in VALID_MOODS
    /\ a.energy.ty = "int" /\ a.energy.i \in 1..10
    /\ a.category.ty = "none"
          \/ (a.category.ty = "str" /\ Lower(a.category.s) \in VALID_CATEGORIES)
    /\ a.seed.ty \in {"none", "int"}

\* C10: a valid call returns mood_alignment = min(1.0, 0.5 + 0.3 if the
\* selected record's category is in the preferred category list + 0.2 if
\* its energy tier is the tier of the given energy), one of 0.5, 0.7, 0.8
\* and 1.0, within [0, 1].
C10_MoodAlignment ==
    (last # NoCall /\ ValidAffCall(last.args)) =>
        LET selected == AFFIRMATIONS[last.result.text.template]
            preferred == C10_Preferred(last.args)
            matchesCategory == \E i \in 1..Len(preferred) :
                                    preferred[i] = selected.category
            matchesTier == selected.energy = C10_Tier(last.args.energy.i)
            sum == 50 + (IF matchesCategory THEN 30 ELSE 0)
                      + (IF matchesTier THEN 20 ELSE 0)
        IN  /\ last.result.status = "ok"
            /\ last.result.category = selected.category
            /\ last.result.mood_alignment = (IF sum > 100 THEN 100 ELSE sum)
            /\ last.result.mood_alignment \in {50, 70, 80, 100}
            /\ last.result.mood_alignment >= 0
            /\ last.result.mood_alignment <= 100

\* a call with energy 3, the top of the low tier, selected a low record
\* outside the preferred categories: 0.7
C10_Witness ==
    /\ last.result.status = "ok"
    /\ last.args.energy = PyInt(3)
    /\ AFFIRMATIONS[last.result.text.template].energy = "low"
    /\ last.result.mood_alignment = 70

\* C11: a valid call with an explicit category returns a record of that
\* category, whatever the mood, the energy and the number drawn.
C11_CategoryIsConstraint ==
    (last # NoCall /\ ValidAffCall(last.args) /\ last.args.category.ty = "str")
        => /\ last.result.status = "ok"
           /\ last.result.category = Lower(last.args.category.s)

\* the call with its category spelled in lowercase
C12_Lowercased(a) == [a EXCEPT !.category = PyStr(Lower(a.category.s))]

\* C12: a valid call with an explicit category, however the category is
\* spelled, returns for the same draw what the call with the lowercase
\* spelling returns: the same text, category and mood_alignment.
C12_CaseInsensitiveCategory ==
    [][(/\ last' # last
        /\ ValidAffCall(last'.args)
        /\ last'.args.category.ty = "str")
            => last'.result = get_affirmation(C12_Lowercased(last'.args), rng).result]_vars

\* an argument of a type the function does not take
C13_TypeFault(a) ==
    \/ a.name.ty # "str"
    \/ a.mood.ty # "str"
    \/ a.energy.ty # "int"
    \/ a.category.ty \notin {"none", "str"}
    \/ a.seed.ty \notin {"none", "int"}

\* an argument of the right type and a value the function does not take
C13_ValueFault(a) ==
    \/ a.mood.ty = "str" /\ Lower(a.mood.s) \notin VALID_MOODS
    \/ a.energy.ty = "int" /\ a.energy.i \notin 1..10
    \/ a.category.ty = "str" /\ Lower(a.category.s) \notin VALID_CATEGORIES

\* C13: a call with an argument of a wrong type raises TypeError and a call
\* with a mood, energy or category of a wrong value raises ValueError (one
\* of the two when it has both faults); the failing call returns no result
\* and leaves the shared generator in the state it had, seed or no seed.
C13_ValidationBeforeComputation ==
    [][(/\ last' # last
        /\ C13_TypeFault(last'.args) \/ C13_ValueFault(last'.args))
            => /\ last'.result.status \in {"TypeError", "ValueError"}
               /\ ~C13_ValueFault(last'.args) => last'.result.status = "TypeError"
               /\ ~C13_TypeFault(last'.args) => last'.result.status = "ValueError"
               /\ last'.result = NoResult(last'.result.status)
               /\ rng' = rng]_vars

\* a call with a boolean energy and the seed 1 raised TypeError
C13_Witness ==
    /\ last.args.energy = PyBool
    /\ last.args.seed = PyInt(1)
    /\ last.result.status = "TypeError"

\* the category multiplier of a catalog record, in halves
C14_CategoryMultiplier(record, preferred) ==
    IF record.category = preferred[1] THEN 6
    ELSE IF \E i \in 2..Len(preferred) : preferred[i] = record.category THEN 4
    ELSE 1

C14_TierNumber(tier) ==
    CASE tier = "low" -> 1 [] tier = "medium" -> 2 [] tier = "high" -> 3

\* the energy multiplier of a catalog record, in halves
C14_EnergyMultiplier(record, tier) ==
    LET distance == C14_TierNumber(record.energy) - C14_TierNumber(tier)
    IN  IF distance = 0 THEN 4
        ELSE IF distance \in {-1, 1} THEN 3
        ELSE 2

\* the weight of the first k candidates together
RECURSIVE C14_Cumulative(_, _)
C14_Cumulative(candidates, k) ==
    IF k = 0 THEN 0
    ELSE C14_Cumulative(candidates, k - 1) + candidates[k].weight

\* C14: the candidates are all the catalog records in catalog order, each
\* weighted categoryMultiplier * energyMultiplier; r lies in [0, total]; the
\* record selected is the first whose cumulative weight is >= r; and every
\* record is the one selected for some r of the range.
C14_WeightedDraw ==
    (last # NoCall) =>
        LET candidates == last.candidates
            N == Len(AFFIRMATIONS)
            preferred == C10_Preferred(last.args)
            tier == C10_Tier(last.args.energy.i)
            total == C14_Cumulative(candidates, N)
        IN  /\ Len(candidates) = N
            /\ \A i \in 1..N :
                  /\ candidates[i].idx = i
                  /\ candidates[i].weight =
                        C14_CategoryMultiplier(AFFIRMATIONS[i], preferred)
                        * C14_EnergyMultiplier(AFFIRMATIONS[i], tier)
            /\ last.r \in 0..total
            /\ last.selected \in 1..N
            /\ C14_Cumulative(candidates, last.selected) >= last.r
            /\ C14_Cumulative(candidates, last.selected - 1) < last.r
                  \/ last.selected = 1
            /\ last.result.category = AFFIRMATIONS[last.selected].category
            /\ \A i \in 1..N :
                  \E r \in (C14_Cumulative(candidates, i - 1) + 1)
                              ..C14_Cumulative(candidates, i) :
                      /\ r \in 0..total
                      /\ Walk(candidates, 1, 0, r * RngMod) = i

\* r was exactly the cumulative weight of the fifth record, the fifth
\* record was selected, and the call had an explicit category
C14_Witness ==
    /\ last # NoCall
    /\ last.args.category = PyStr("growth")
    /\ last.selected = 5
    /\ last.r = C14_Cumulative(last.candidates, 5)

\* the task has a deadline that parses as a date
C15_DeadlineParses(task) ==
    /\ "deadline" \in DOMAIN task
    /\ task["deadline"] # <<>>
    /\ Parses(task["deadline"])

\* C15: with method "deadline" no task whose deadline is absent, empty or
\* unparseable gets a smaller rank than a task of the same call whose
\* deadline parses.
C15_NoDeadlineRanksLast ==
    (RankReturned /\ ValidRankCall /\ method = "deadline") =>
        \A i, j \in 1..Len(rankResult.rows) :
            (/\ C15_DeadlineParses(SourceTask(rankResult.rows[i]))
             /\ ~C15_DeadlineParses(SourceTask(rankResult.rows[j])))
                => rankResult.rows[i]["rank"] < rankResult.rows[j]["rank"]

\* C16: a call, successful or failing, with either method, leaves the
\* input list with the same tasks in the same order, every task with the
\* fields and values it had (no priority_score, rank or
\* days_until_deadline added), and leaves the weights mapping as it was.
C16_ArgumentsUnchanged ==
    [][(rankResult' # rankResult)
            => /\ tasks' = tasks
               /\ weights' = weights
               /\ \A i \in 1..Len(tasks'.items) :
                    DOMAIN tasks'.items[i]
                        \cap {"priority_score", "rank", "days_until_deadline"} = {}]_vars

\* a deadline call with a weights dict returned three ranked rows, the
\* first of them made from the last task of the input
C16_Witness ==
    /\ rankResult.status = "ok"
    /\ method = "deadline"
    /\ weights.kind = "dict"
    /\ Len(rankResult.rows) = 3
    /\ rankResult.rows[1]["pos"] = 3
    /\ "days_until_deadline" \in DOMAIN rankResult.rows[1]

====
